---- MODULE Spec2Model ----
(***************************************************************************)
(* Chunked parallel bulk loader: Files/bulk_insert_method.py (publish)     *)
(* and Files/bulk_insert_method_with_prog_bar.py (bulk_publish).           *)
(*                                                                         *)
(* A table is a dict of lists: keys is the ordered column names, values    *)
(* the columns in the same order.  chunk_data slices it into chunks; the   *)
(* dispatcher submits one insert per chunk to a ThreadPoolExecutor of      *)
(* BULK_WORKERS threads, iterates as_completed and raises on the first     *)
(* failed future it sees; leaving the with block waits for the pool.       *)
(***************************************************************************)
EXTENDS Integers, Sequences, FiniteSets, TLC

\* ------------------------------------------------------------------------
\* Program constants
\* ------------------------------------------------------------------------
BULK_WORKERS == 4

bar_len == 50

\* ------------------------------------------------------------------------
\* Bounds of the model
\* ------------------------------------------------------------------------
\* rows of the tables handed to publish / bulk_publish
MaxRows == 5

\* chunk sizes tried (the code's default is 50000; the tables are scaled)
MaxChunkSize == 2

\* rows of the tables handed to chunk_data alone
MaxChunkRows == 3

\* number of insert calls whose database session fails (a failing connect,
\* write or commit; the rollback that follows may fail as well)
MaxFaults == 1

\* characters of the field values the serializer is run on
MaxFieldLen == 4

\* rows of the two-column tables the serializer is run on
MaxSerRows == 2


\* ------------------------------------------------------------------------
\* Values
\* ------------------------------------------------------------------------
\* A scalar whose __str__ raises: str(x) in cln fails for it.
Unprintable == "<unprintable>"

Variants == {"publish", "bulk_publish"}

Min(a, b) == IF a < b THEN a ELSE b

\* ------------------------------------------------------------------------
\* chunk_data
\* ------------------------------------------------------------------------
\* v[i:j] of Python for 0 <= i <= j: the elements at 0-based i .. j-1,
\* clamped to the length of v.
Slice(v, i, j) == SubSeq(v, Min(i, Len(v)) + 1, Min(j, Len(v)))

\* range(0, n, step) for step > 0, as the sequence of its values.
RECURSIVE RangeFrom(_, _, _)
RangeFrom_whole_steps(i, n, step) ==
    IF i + step > n THEN << >> ELSE << i >> \o RangeFrom(i + step, n, step)

RangeFrom(i, n, step) ==
    IF i >= n THEN << >> ELSE << i >> \o RangeFrom(i + step, n, step)

\* one iteration of the loop of chunk_data: the chunk starting at row i
chunk_at_short(data, i, chunk_size) ==
    [keys   |-> data.keys,
     values |-> [k \in 1..Len(data.values) |->
                    Slice(data.values[k], i, i + chunk_size - 1)]]

chunk_at(data, i, chunk_size) ==
    [keys   |-> data.keys,
     values |-> [k \in 1..Len(data.values) |->
                    Slice(data.values[k], i, i + chunk_size)]]

\* chunk_data(data, chunk_size): ok = FALSE stands for the RuntimeWarning
\* raised from the except clause (values[0] of a table without columns).
chunk_data(data, chunk_size) ==
    IF Len(data.values) = 0
    THEN [ok |-> FALSE, chunks |-> << >>]
    ELSE LET starts == RangeFrom(0, Len(data.values[1]), chunk_size)
         IN  [ok     |-> TRUE,
              chunks |-> [n \in 1..Len(starts) |->
                            chunk_at(data, starts[n], chunk_size)]]

\* zip(*chunk.values()): the rows of a chunk or table, as many as the
\* shortest column has.
RECURSIVE MinLen(_)
MinLen(cols) ==
    IF Len(cols) = 1 THEN Len(cols[1])
    ELSE Min(Len(cols[1]), MinLen(Tail(cols)))

Rows(t) ==
    IF Len(t.values) = 0 THEN << >>
    ELSE [r \in 1..MinLen(t.values) |->
            [k \in 1..Len(t.values) |-> t.values[k][r]]]

\* str(x) in cln raises for an unprintable scalar; the generator that
\* builds val then raises out of insert before connect is called.
serialization_fails(chunk) ==
    \E r \in 1..Len(Rows(chunk)) :
        \E k \in 1..Len(chunk.values) : Rows(chunk)[r][k] = Unprintable

\* ------------------------------------------------------------------------
\* Text: a str is the sequence of its characters
\* ------------------------------------------------------------------------
DQ == "\""

SQ == "'"

PIPE == "|"

NL == "\n"

CR == "\r"

\* the characters str.strip() and \s of re take for whitespace, as far as
\* the model's alphabet has them
Whitespace == {" ", NL, CR}

UpperCase == << "A", "B", "C", "D", "E", "F", "G", "H", "I", "J", "K", "L", "M",
                "N", "O", "P", "Q", "R", "S", "T", "U", "V", "W", "X", "Y", "Z" >>

LowerCase == << "a", "b", "c", "d", "e", "f", "g", "h", "i", "j", "k", "l", "m",
                "n", "o", "p", "q", "r", "s", "t", "u", "v", "w", "x", "y", "z" >>

lower_char(ch) ==
    IF \E i \in 1..Len(UpperCase) : UpperCase[i] = ch
    THEN LowerCase[CHOOSE i \in 1..Len(UpperCase) : UpperCase[i] = ch]
    ELSE ch

\* str.lower()
str_lower(s) == [i \in 1..Len(s) |-> lower_char(s[i])]

\* s.replace(ch, new) for a single character ch
RECURSIVE str_replace(_, _, _)
str_replace(s, ch, new) ==
    IF Len(s) = 0 THEN << >>
    ELSE (IF s[1] = ch THEN new ELSE << s[1] >>) \o str_replace(Tail(s), ch, new)

RECURSIVE lstrip(_)
lstrip(s) ==
    IF Len(s) > 0 /\ s[1] \in Whitespace THEN lstrip(Tail(s)) ELSE s

RECURSIVE rstrip(_)
rstrip(s) ==
    IF Len(s) > 0 /\ s[Len(s)] \in Whitespace
    THEN rstrip(SubSeq(s, 1, Len(s) - 1)) ELSE s

\* str.strip()
strip(s) == rstrip(lstrip(s))

\* sep.join(parts)
RECURSIVE join(_, _)
join(sep, parts) ==
    IF Len(parts) = 0 THEN << >>
    ELSE IF Len(parts) = 1 THEN parts[1]
    ELSE parts[1] \o sep \o join(sep, Tail(parts))

\* decimal digits of a natural number
Digits == << "0", "1", "2", "3", "4", "5", "6", "7", "8", "9" >>

RECURSIVE str_nat(_)
str_nat(n) ==
    IF n < 10 THEN << Digits[n + 1] >>
    ELSE str_nat(n \div 10) \o << Digits[(n % 10) + 1] >>

\* ------------------------------------------------------------------------
\* Scalars of a column and insert's sanitizer
\* ------------------------------------------------------------------------
\* a scalar is None, a str, an int or the float nan
None == [kind |-> "none"]

Text(s) == [kind |-> "str", s |-> s]

Int_(n) == [kind |-> "int", n |-> n]

FloatNaN == [kind |-> "float_nan"]

\* str(x)
str(x) ==
    CASE x.kind = "str" -> x.s
      [] x.kind = "int" -> IF x.n < 0 THEN << "-" >> \o str_nat(0 - x.n) ELSE str_nat(x.n)
      [] x.kind = "float_nan" -> << "n", "a", "n" >>
      [] x.kind = "none" -> << "N", "o", "n", "e" >>

\* the alternatives of comp, ''|nan|N/A|NULL|NAT: the first is two
\* apostrophes
CompAlternatives ==
    { << SQ, SQ >>, << "n", "a", "n" >>, << "N", "/", "A" >>,
      << "N", "U", "L", "L" >>, << "N", "A", "T" >> }

\* what ^\s* and \s*$ leave between them
re_inner(s) == rstrip(lstrip(s))

\* comp matches s: ^\s*(''|nan|N/A|NULL|NAT)\s*$ with re.IGNORECASE
comp_matches_case_sensitive(s) == re_inner(s) \in CompAlternatives

comp_matches(s) ==
    \E alt \in CompAlternatives : str_lower(re_inner(s)) = str_lower(alt)

\* comp.sub('', s): the pattern is anchored at both ends, so the whole of
\* s is replaced or nothing is
comp_sub_never(s) == s

comp_sub(s) == IF comp_matches(s) THEN << >> ELSE s

\* cln(x)
cln(x) ==
    IF x.kind = "none" THEN << >>
    ELSE str_lower(comp_sub(strip(str_replace(str(x), DQ, << DQ, DQ >>))))

\* one field of val: comp.sub('', cln(col)).replace('\n', '').replace('\r', '')
field(x) ==
    str_replace(str_replace(comp_sub(cln(x)), NL, << >>), CR, << >>)

\* val: '\n'.join('|'.join(field for col in row) for row in zip(*chunk.values()))
serialize_terminated(chunk) ==
    LET rows == Rows(chunk)
    IN  join(<< >>,
             [r \in 1..Len(rows) |->
                join(<< PIPE >>, [k \in 1..Len(rows[r]) |-> field(rows[r][k])])
                \o << NL >>])

serialize(chunk) ==
    LET rows == Rows(chunk)
    IN  join(<< NL >>,
             [r \in 1..Len(rows) |->
                join(<< PIPE >>, [k \in 1..Len(rows[r]) |-> field(rows[r][k])])])

\* the reader of COPY ... WITH (FORMAT CSV, QUOTE E'"', ESCAPE E'"') over one
\* field: a quote opens or closes a quoted section, and inside a quoted
\* section a doubled quote is one literal quote
RECURSIVE csv_field(_, _)
csv_field(s, in_quote) ==
    IF Len(s) = 0 THEN << >>
    ELSE IF ~in_quote
    THEN IF s[1] = DQ THEN csv_field(Tail(s), TRUE)
         ELSE << s[1] >> \o csv_field(Tail(s), FALSE)
    ELSE IF s[1] = DQ /\ Len(s) >= 2 /\ s[2] = DQ
    THEN << DQ >> \o csv_field(Tail(Tail(s)), TRUE)
    ELSE IF s[1] = DQ THEN csv_field(Tail(s), FALSE)
    ELSE << s[1] >> \o csv_field(Tail(s), TRUE)

\* column names
Name_id == << "i", "d" >>

Name_name == << "n", "a", "m", "e" >>

Name_order == << "o", "r", "d", "e", "r" >>

Name_orders == << "o", "r", "d", "e", "r", "s" >>

\* x.replace('order', '"order"') if x == 'order' else x
quote_order(x) == IF x = Name_order THEN << DQ >> \o x \o << DQ >> ELSE x

\* repr of a str without quotes or escapes in it
py_repr(x) == << SQ >> \o x \o << SQ >>

\* str(chunk.keys()): dict_keys(['id', 'name'])
str_dict_keys(keys) ==
    << "d", "i", "c", "t", "_", "k", "e", "y", "s", "(", "[" >>
    \o join(<< ",", " " >>, [k \in 1..Len(keys) |-> py_repr(keys[k])])
    \o << "]", ")" >>

\* the text between the parentheses after the table name in the COPY
\* statement: publish interpolates col, bulk_publish chunk.keys()
column_list(v, keys) ==
    IF v = "publish"
    THEN join(<< ",", " " >>, [k \in 1..Len(keys) |-> quote_order(keys[k])])
    ELSE str_dict_keys(keys)

\* what insert builds before it connects
insert_build(v, chunk) ==
    [val |-> serialize(chunk), col |-> column_list(v, chunk.keys)]

\* ------------------------------------------------------------------------
\* State
\* ------------------------------------------------------------------------
VARIABLES
    variant,     \* entry point called: "publish" or "bulk_publish"
    table,       \* the table passed in
    chunk_size,  \* the chunk size chunk_data runs with
    pub,         \* position of the dispatcher
    chunks,      \* result of chunk_data
    loads,       \* per chunk: the future and the insert call behind it
    connOpen,    \* connections currently open
    observed,    \* futures yielded by as_completed so far
    errors,      \* errors raised by the dispatcher to its caller
    progress,    \* calls of progress_bar so far
    faults,      \* insert calls whose database session failed so far
    built        \* per chunk: val and the column list insert built for it

vars == << variant, table, chunk_size, pub, chunks, loads, connOpen,
           observed, errors, progress, faults, built >>


\* ------------------------------------------------------------------------
\* Inputs
\* ------------------------------------------------------------------------
\* all sequences over S of length n
SeqsOfLen(S, n) == [1..n -> S]

\* tables for the dispatcher: no column at all, or one column "id" of up
\* to MaxRows scalars, the first of which may be unprintable
DispatchTables ==
    { [keys |-> << >>, values |-> << >>] } \cup
    { [keys |-> << "id" >>, values |-> << col >>] :
        col \in { q \in UNION { SeqsOfLen({"x", Unprintable}, n) : n \in 0..MaxRows } :
                    \A r \in 2..Len(q) : q[r] = "x" } }

\* tables for chunk_data alone: one or two columns of equal length
KeyOrders == { << "id" >>, << "id", "name" >>, << "name", "id" >> }

ChunkTables ==
    UNION { { [keys |-> ks, values |-> vs] :
                vs \in SeqsOfLen(SeqsOfLen({"a", "b"}, n), Len(ks)) } :
            ks \in KeyOrders, n \in 0..MaxChunkRows }

\* the table without columns: an empty dict, an empty DataFrame
EmptyTable == [keys |-> << >>, values |-> << >>]

\* dicts of lists whose two columns differ in length: bulk_publish takes
\* any dict (the DataFrame publish takes cannot be ragged)
RaggedTables ==
    UNION { { [keys |-> << "id", "name" >>, values |-> << c1, c2 >>] :
                c1 \in SeqsOfLen({"a"}, nn[1]), c2 \in SeqsOfLen({"a", "b"}, nn[2]) } :
            nn \in { q \in (0..MaxChunkRows) \X (0..MaxChunkRows) : q[1] # q[2] } }

\* ------------------------------------------------------------------------
\* The future of one chunk and the insert call behind it
\* ------------------------------------------------------------------------
\* st: unsubmitted -> queued -> (insert runs) serialized -> connected ->
\*     written -> finished, or -> except -> finished; cancelled if the
\*     executor drops it.
\* exc: the exception stored in the future ("none": insert returned)
\* cause: what failed inside the try block ("write" or "commit")
NewLoad ==
    [st |-> "unsubmitted", exc |-> "none", cause |-> "none", invoked |-> 0,
     conn |-> 0, commits |-> 0, rollbacks |-> 0]

Terminal == {"finished", "cancelled"}

InProgress == { c \in DOMAIN loads :
                  loads[c].st \in {"serialized", "connected", "written", "except"} }

Queued == { c \in DOMAIN loads : loads[c].st = "queued" }

\* pg.connect returns a new connection object on every call; it is named
\* after the insert call that made it.
connect(c) == c

\* a pool thread is free to take the next work item
WorkerAvailable_unbounded == TRUE

WorkerAvailable == Cardinality(InProgress) < BULK_WORKERS

\* the executor's queue is FIFO: the head is the oldest queued submission
QueueHead(c) == c \in Queued /\ \A d \in Queued : c <= d

\* leaving "with connect(...) as conn": psycopg closes the connection
\* whether the block returned or raised (the commit or rollback it issues
\* before closing finds the transaction already ended by insert)
with_exit_leaky(open, id, raised) == IF raised THEN open ELSE open \ {id}

with_exit_closes_all(open, id, raised) == IF raised THEN {} ELSE open \ {id}

with_exit(open, id, raised) == open \ {id}

\* the except clause of insert: conn.rollback(), then raise RuntimeError
\* from e; if rollback itself raises, that error leaves insert instead.
\* rollbacks counts the calls of conn.rollback() made by insert, commits
\* the calls of conn.commit() that returned.
on_except_no_rollback(l, rb_ok) ==
    [l EXCEPT !.st = "finished",
              !.exc = IF rb_ok THEN "load" ELSE "rollback"]

on_except(l, rb_ok) ==
    [l EXCEPT !.st = "finished", !.rollbacks = @ + 1,
              !.exc = IF rb_ok THEN "load" ELSE "rollback"]

\* a failed write or commit enters the except clause
on_error_swallowed(l, what) == [l EXCEPT !.st = "finished"]

on_error(l, what) == [l EXCEPT !.st = "except", !.cause = what]

\* ------------------------------------------------------------------------
\* The dispatcher
\* ------------------------------------------------------------------------
\* future.result(): re-raises the exception insert ended with
future_result_swallowed(l) == "none"

future_result(l) == l.exc

\* chunks = chunk_data(...) is outside any try: its error leaves publish
\* before the executor is created
after_chunking_continue(r) == "submitting"

after_chunking(r) == IF r.ok THEN "submitting" ELSE "chunk_error"

\* ThreadPoolExecutor.__exit__ is shutdown(wait=True) without
\* cancel_futures: a queued work item stays queued and is still run
shutdown_cancel(l) == IF l.st = "queued" THEN [l EXCEPT !.st = "cancelled"] ELSE l

shutdown(l) == l

\* shutdown(wait=True) returns once every submitted work item is over
ExecutorDrained_nowait == TRUE

ExecutorDrained == \A c \in DOMAIN loads : loads[c].st \in Terminal

\* progress_bar(i, ttl): percent = 100 * i / ttl kept as a fraction,
\* pct = int(bar_len * percent // 100) the number of '#' printed
progress_bar(i, ttl) ==
    [i |-> i, ttl |-> ttl, percent_num |-> 100 * i, percent_den |-> ttl,
     pct |-> (bar_len * 100 * i) \div (ttl * 100)]

\* the body of the for loop of bulk_publish after future.result():
\* progress_bar is reached only when result() did not raise
progress_after_always(prog, ok, i, ttl) == Append(prog, progress_bar(i, ttl))

progress_after(prog, ok, i, ttl) ==
    IF ok THEN Append(prog, progress_bar(i, ttl)) ELSE prog

\* ------------------------------------------------------------------------
\* Initial states
\* ------------------------------------------------------------------------
InitRest ==
    /\ pub = "idle"
    /\ chunks = << >>
    /\ loads = << >>
    /\ connOpen = {}
    /\ observed = {}
    /\ errors = << >>
    /\ progress = << >>
    /\ faults = 0
    /\ built = << >>

\* a call of bulk_publish
Init ==
    /\ variant = "bulk_publish"
    /\ table \in DispatchTables
    /\ chunk_size \in 1..MaxChunkSize
    /\ InitRest

\* a call of publish: the same loop without the progress bar
InitPublish ==
    /\ variant = "publish"
    /\ table \in DispatchTables
    /\ chunk_size \in 1..MaxChunkSize
    /\ InitRest

\* chunk_data of either file on its own
InitChunk ==
    /\ variant \in Variants
    /\ table \in ChunkTables \cup {EmptyTable}
                \cup (IF variant = "bulk_publish" THEN RaggedTables ELSE {})
    /\ chunk_size \in 1..(MaxChunkSize + 1)
    /\ InitRest

\* ------------------------------------------------------------------------
\* Actions of the dispatcher (main thread)
\* ------------------------------------------------------------------------
\* chunks = chunk_data(df)
Chunk ==
    /\ pub = "idle"
    /\ LET r == chunk_data(table, chunk_size)
       IN  /\ pub' = after_chunking(r)
           /\ chunks' = r.chunks
           /\ loads' = [c \in 1..Len(r.chunks) |-> NewLoad]
    /\ UNCHANGED << built, variant, table, chunk_size, connOpen, observed, errors,
                    progress, faults >>

\* exe.submit(insert, chunk, ...) for the next chunk of the comprehension
Submit ==
    /\ pub = "submitting"
    /\ \E c \in DOMAIN loads :
        /\ loads[c].st = "unsubmitted"
        /\ \A d \in DOMAIN loads : loads[d].st = "unsubmitted" => c <= d
        /\ loads' = [loads EXCEPT ![c].st = "queued"]
    /\ UNCHANGED << built, variant, table, chunk_size, pub, chunks, connOpen,
                    observed, errors, progress, faults >>

\* the comprehension is over: as_completed(f) is called
BeginIter ==
    /\ pub = "submitting"
    /\ \A c \in DOMAIN loads : loads[c].st # "unsubmitted"
    /\ pub' = "iterating"
    /\ UNCHANGED << built, variant, table, chunk_size, chunks, loads, connOpen,
                    observed, errors, progress, faults >>

\* as_completed yields a finished future that it has not yielded yet and
\* result() returns: the loop goes on (bulk_publish advances the bar)
ObserveOk(c) ==
    /\ pub = "iterating"
    /\ loads[c].st = "finished"
    /\ c \notin observed
    /\ future_result(loads[c]) = "none"
    /\ observed' = observed \cup {c}
    /\ progress' = IF variant = "bulk_publish"
                   THEN progress_after(progress, TRUE, Cardinality(observed) + 1, Len(chunks))
                   ELSE progress
    /\ UNCHANGED << built, variant, table, chunk_size, pub, chunks, loads, connOpen,
                    errors, faults >>

\* as_completed yields a finished future and result() raises: RuntimeError
\* is raised from it, which leaves the for loop and enters the executor's
\* __exit__
ObserveFail(c) ==
    /\ pub = "iterating"
    /\ loads[c].st = "finished"
    /\ c \notin observed
    /\ future_result(loads[c]) # "none"
    /\ observed' = observed \cup {c}
    /\ errors' = Append(errors, [chunk |-> c, cause |-> future_result(loads[c])])
    /\ progress' = IF variant = "bulk_publish"
                   THEN progress_after(progress, FALSE, Cardinality(observed) + 1, Len(chunks))
                   ELSE progress
    /\ pub' = "unwinding"
    /\ loads' = [d \in DOMAIN loads |-> shutdown(loads[d])]
    /\ UNCHANGED << built, variant, table, chunk_size, chunks, connOpen, faults >>

\* the for loop ran out of futures; the with block is left and publish
\* returns
Return ==
    /\ pub = "iterating"
    /\ observed = DOMAIN loads
    /\ ExecutorDrained
    /\ pub' = "returned"
    /\ UNCHANGED << built, variant, table, chunk_size, chunks, loads, connOpen,
                    observed, errors, progress, faults >>

\* the executor's __exit__ has waited for the pool: the RuntimeError
\* reaches the caller
Raise ==
    /\ pub = "unwinding"
    /\ ExecutorDrained
    /\ pub' = "raised"
    /\ UNCHANGED << built, variant, table, chunk_size, chunks, loads, connOpen,
                    observed, errors, progress, faults >>

\* ------------------------------------------------------------------------
\* Actions of the pool threads: one insert call
\* ------------------------------------------------------------------------
PoolAlive == pub \in {"submitting", "iterating", "unwinding"}

\* a free thread takes the head of the queue and calls insert, which
\* builds val, col and the COPY statement
Start(c) ==
    /\ PoolAlive
    /\ QueueHead(c)
    /\ WorkerAvailable
    /\ loads' = [loads EXCEPT
                   ![c] = IF serialization_fails(chunks[c])
                          THEN [@ EXCEPT !.invoked = @ + 1, !.st = "finished",
                                         !.exc = "serialization"]
                          ELSE [@ EXCEPT !.invoked = @ + 1, !.st = "serialized"]]
    /\ UNCHANGED << built, variant, table, chunk_size, pub, chunks, connOpen,
                    observed, errors, progress, faults >>

\* connect(...) returns a connection and the with block is entered
ConnectOk(c) ==
    /\ loads[c].st = "serialized"
    /\ loads' = [loads EXCEPT ![c].st = "connected", ![c].conn = connect(c)]
    /\ connOpen' = connOpen \cup {connect(c)}
    /\ UNCHANGED << built, variant, table, chunk_size, pub, chunks, observed,
                    errors, progress, faults >>

\* connect(...) raises: insert ends with that error
ConnectFail(c) ==
    /\ loads[c].st = "serialized"
    /\ faults < MaxFaults
    /\ faults' = faults + 1
    /\ loads' = [loads EXCEPT ![c].st = "finished", ![c].exc = "connection"]
    /\ UNCHANGED << built, variant, table, chunk_size, pub, chunks, connOpen,
                    observed, errors, progress >>

\* cur.copy(sql) and writer.write(val) go through and the copy is closed
WriteOk(c) ==
    /\ loads[c].st = "connected"
    /\ loads' = [loads EXCEPT ![c].st = "written"]
    /\ UNCHANGED << built, variant, table, chunk_size, pub, chunks, connOpen,
                    observed, errors, progress, faults >>

\* the cursor, the copy or the write raises
WriteFail(c) ==
    /\ loads[c].st = "connected"
    /\ faults < MaxFaults
    /\ faults' = faults + 1
    /\ loads' = [loads EXCEPT ![c] = on_error(@, "write")]
    /\ UNCHANGED << built, variant, table, chunk_size, pub, chunks, connOpen,
                    observed, errors, progress >>

\* conn.commit() succeeds; the with block is left and insert returns
CommitOk(c) ==
    /\ loads[c].st = "written"
    /\ loads' = [loads EXCEPT ![c].st = "finished", ![c].commits = @ + 1]
    /\ connOpen' = with_exit(connOpen, loads[c].conn, FALSE)
    /\ UNCHANGED << built, variant, table, chunk_size, pub, chunks, observed,
                    errors, progress, faults >>

\* conn.commit() raises
CommitFail(c) ==
    /\ loads[c].st = "written"
    /\ faults < MaxFaults
    /\ faults' = faults + 1
    /\ loads' = [loads EXCEPT ![c] = on_error(@, "commit")]
    /\ UNCHANGED << built, variant, table, chunk_size, pub, chunks, connOpen,
                    observed, errors, progress >>

\* except: conn.rollback() succeeds and RuntimeError is raised from the
\* cause; the with block is left
RollbackOk(c) ==
    /\ loads[c].st = "except"
    /\ loads' = [loads EXCEPT ![c] = on_except(@, TRUE)]
    /\ connOpen' = with_exit(connOpen, loads[c].conn, TRUE)
    /\ UNCHANGED << built, variant, table, chunk_size, pub, chunks, observed,
                    errors, progress, faults >>

\* except: conn.rollback() itself raises; the with block is left
RollbackFail(c) ==
    /\ loads[c].st = "except"
    /\ loads' = [loads EXCEPT ![c] = on_except(@, FALSE)]
    /\ connOpen' = with_exit(connOpen, loads[c].conn, TRUE)
    /\ UNCHANGED << built, variant, table, chunk_size, pub, chunks, observed,
                    errors, progress, faults >>

Next ==
    \/ Chunk
    \/ Submit
    \/ BeginIter
    \/ \E c \in DOMAIN loads : ObserveOk(c)
    \/ \E c \in DOMAIN loads : ObserveFail(c)
    \/ Return
    \/ Raise
    \/ \E c \in DOMAIN loads : Start(c)
    \/ \E c \in DOMAIN loads : ConnectOk(c)
    \/ \E c \in DOMAIN loads : ConnectFail(c)
    \/ \E c \in DOMAIN loads : WriteOk(c)
    \/ \E c \in DOMAIN loads : WriteFail(c)
    \/ \E c \in DOMAIN loads : CommitOk(c)
    \/ \E c \in DOMAIN loads : CommitFail(c)
    \/ \E c \in DOMAIN loads : RollbackOk(c)
    \/ \E c \in DOMAIN loads : RollbackFail(c)

Spec == Init /\ [][Next]_vars

SpecPublish == InitPublish /\ [][Next]_vars

\* chunk_data run on its own over richer tables
NextChunk == Chunk

SpecChunk == InitChunk /\ [][NextChunk]_vars

\* ------------------------------------------------------------------------
\* insert's statement building run on its own over richer scalars
\* ------------------------------------------------------------------------
Alphabet == {"n", "a", "N", " ", NL, DQ, PIPE, SQ}

\* every str over Alphabet of up to MaxFieldLen characters
FieldTexts == UNION { SeqsOfLen(Alphabet, n) : n \in 0..MaxFieldLen }

\* scalars outside FieldTexts: the remaining sentinels, other types, the
\* examples of the documentation
NamedScalars ==
    { None, FloatNaN, Int_(1), Int_(12), Int_(0 - 3),
      Text(<< "n", "u", "l", "l" >>), Text(<< "N", "u", "l", "l" >>),
      Text(<< "N", "/", "A" >>), Text(<< "N", "a", "T" >>),
      Text(<< " ", "N", "U", "L", "L", CR, NL >>),
      Text(<< "n", CR, "a", "t" >>), Text(<< "a", CR, "b" >>),
      Text(<< "H", "e", " ", "s", "a", "i", "d", " ", DQ, "h", "i", DQ >>) }

\* one row, one column
FieldTables ==
    { [keys |-> << Name_id >>, values |-> << << x >> >>] :
        x \in { Text(t) : t \in FieldTexts } \cup NamedScalars }

\* column names in every order, one row
KeyLists ==
    { ks \in UNION { SeqsOfLen({Name_id, Name_name, Name_order, Name_orders}, n) :
                        n \in 1..2 } :
        \A i, j \in 1..Len(ks) : i # j => ks[i] # ks[j] }

KeyTables ==
    { [keys |-> ks, values |-> [k \in 1..Len(ks) |-> << Int_(k) >>]] : ks \in KeyLists }

\* two columns of up to MaxSerRows rows
GridScalars ==
    { None, Text(<< "a" >>), Text(<< "a", PIPE, "b" >>), Text(<< " ", "a" >>),
      Text(<< "N", "a", "N" >>) }

GridTables ==
    UNION { { [keys |-> << Name_id, Name_name >>, values |-> << c1, c2 >>] :
                c1 \in SeqsOfLen(GridScalars, n), c2 \in SeqsOfLen(GridScalars, n) } :
            n \in 1..MaxSerRows }

\* the table of the documentation's example
ExampleTable ==
    [keys |-> << Name_id, Name_name >>,
     values |-> << << Int_(1), Int_(2), Int_(3) >>,
                   << Text(<< "A", "l", "i", "c", "e" >>), Text(<< "B", "o", "b" >>),
                      None >> >>]

SerializeTables == FieldTables \cup KeyTables \cup GridTables \cup {ExampleTable}

InitSerialize ==
    /\ variant \in Variants
    /\ table \in SerializeTables
    /\ chunk_size = MaxChunkSize
    /\ InitRest

\* insert(chunk, ...) up to the statement: val and the column list
Build(c) ==
    /\ pub = "submitting"
    /\ c \in DOMAIN chunks
    /\ c \notin DOMAIN built
    /\ built' = built @@ (c :> insert_build(variant, chunks[c]))
    /\ UNCHANGED << variant, table, chunk_size, pub, chunks, loads, connOpen,
                    observed, errors, progress, faults >>

NextSerialize ==
    \/ Chunk
    \/ \E c \in 1..MaxRows : Build(c)

SpecSerialize == InitSerialize /\ [][NextSerialize]_vars

\* ------------------------------------------------------------------------
\* Vocabulary of the properties
\* ------------------------------------------------------------------------
\* publish / bulk_publish is over: it returned or raised the RuntimeError
Ended == pub \in {"returned", "raised"}

\* the load of chunk c is over and ended with an error
Failed(c) == loads[c].st = "finished" /\ loads[c].exc # "none"

FailedLoads == { c \in DOMAIN loads : Failed(c) }

CommittedLoads == { c \in DOMAIN loads : loads[c].commits >= 1 }

RECURSIVE ConcatRows(_)
ConcatRows(cs) ==
    IF Len(cs) = 0 THEN << >> ELSE Rows(cs[1]) \o ConcatRows(Tail(cs))

EqualLengths(t) ==
    \A j, k \in 1..Len(t.values) : Len(t.values[j]) = Len(t.values[k])

\* ------------------------------------------------------------------------
\* Properties
\* ------------------------------------------------------------------------

\* C1: in every run, failing or not, insert is invoked exactly once for
\* every chunk chunk_data produced: never twice, nothing is cancelled, and
\* when the call is over every chunk has had its one invocation.
C1_InsertOncePerChunk ==
    /\ \A c \in DOMAIN loads :
          loads[c].invoked <= 1 /\ loads[c].st # "cancelled"
    /\ pub \notin {"idle", "chunk_error"} => DOMAIN loads = 1..Len(chunks)
    /\ Ended => \A c \in DOMAIN loads : loads[c].invoked = 1

\* the example of the spec: 5 chunks, chunk 3 fails, the call has raised
C1_Witness ==
    /\ pub = "raised"
    /\ Len(chunks) = 5
    /\ Failed(3)
    /\ \A c \in DOMAIN loads : loads[c].invoked = 1

\* C2: the call raises the aggregated error iff some chunk load failed; it
\* raises one error however many chunks failed, and the error wraps the
\* cause of the one failed load the dispatcher saw in as_completed.
C2_AggregatedErrorIffFailure ==
    /\ Len(errors) <= 1
    /\ Ended => ((pub = "raised") <=> (FailedLoads # {}))
    /\ pub \in {"returned", "chunk_error"} => errors = << >>
    /\ pub = "raised" =>
          /\ Len(errors) = 1
          /\ errors[1].chunk \in observed \cap FailedLoads
          /\ errors[1].cause = loads[errors[1].chunk].exc
          /\ \A d \in observed \cap FailedLoads : d = errors[1].chunk

C2_Witness ==
    /\ pub = "raised"
    /\ Cardinality(FailedLoads) >= 2
    /\ Len(errors) = 1

\* C3: when the call ends, normally or with the error, every submitted
\* chunk load is over (committed or failed): none is queued or running.
C3_BlocksUntilAllTerminal ==
    Ended =>
        /\ InProgress = {} /\ Queued = {}
        /\ \A c \in DOMAIN loads :
              /\ loads[c].st = "finished"
              /\ loads[c].commits = 1 \/ Failed(c)

\* the call raised, and loads that the dispatcher never looked at are over
C3_Witness ==
    /\ pub = "raised"
    /\ \E c \in DOMAIN loads : c \notin observed /\ loads[c].commits = 1
    /\ \A c \in DOMAIN loads : loads[c].st = "finished"

\* C4: at every instant at most BULK_WORKERS loads are in progress.
C4_WorkersBounded == Cardinality(InProgress) <= BULK_WORKERS

\* the pool is full and a chunk waits in the queue
C4_Witness == Cardinality(InProgress) = BULK_WORKERS /\ Queued # {}

\* C5 as stated: every insert call that is over has made exactly one commit
\* or exactly one rollback, also when serialization or connect failed.
C5_OneCommitOrRollbackAlways ==
    \A c \in DOMAIN loads :
        loads[c].st = "finished" => loads[c].commits + loads[c].rollbacks = 1

\* C5 amended: an insert call never makes both a commit and a rollback; a
\* call that opened its connection has, when it is over, made exactly one
\* successful commit or exactly one call of rollback; a call that ended
\* before a connection was open (serialization or connect failed) has made
\* neither.
C5_OneCommitOrRollbackOnceConnected ==
    \A c \in DOMAIN loads :
        /\ loads[c].commits + loads[c].rollbacks <= 1
        /\ loads[c].st = "finished" =>
              /\ loads[c].conn # 0 => loads[c].commits + loads[c].rollbacks = 1
              /\ loads[c].conn = 0 => loads[c].commits + loads[c].rollbacks = 0
              /\ loads[c].exc = "none" <=> loads[c].commits = 1

\* a load whose commit failed is over: it rolled back once and did not commit
C5_Witness ==
    \E c \in DOMAIN loads :
        /\ loads[c].st = "finished"
        /\ loads[c].cause = "commit"
        /\ loads[c].rollbacks = 1
        /\ loads[c].commits = 0

\* C6: when the call returns normally every chunk of the table has been
\* committed.
C6_ReturnMeansAllCommitted ==
    pub = "returned" =>
        /\ DOMAIN loads = 1..Len(chunks)
        /\ CommittedLoads = DOMAIN loads

C6_Witness == pub = "returned" /\ Len(chunks) >= 2

\* a raising run in which some chunks are committed and some are not
C6_PartialCommit ==
    pub = "raised" /\ CommittedLoads # {} /\ CommittedLoads # DOMAIN loads

\* C7: a connection opened by a load is closed when that load is over, on
\* every exit path; no two loads have the same connection; every open
\* connection belongs to a load in progress; none is open once the call ended.
C7_ConnectionsClosed ==
    /\ \A c \in DOMAIN loads :
          loads[c].st = "finished" /\ loads[c].conn # 0 =>
              loads[c].conn \notin connOpen
    /\ \A c, d \in DOMAIN loads :
          c # d /\ loads[c].conn # 0 => loads[c].conn # loads[d].conn
    /\ connOpen \subseteq { loads[c].conn : c \in InProgress }
    /\ Ended => connOpen = {}

\* the call raised after a load whose rollback itself failed, and another
\* load committed; nothing is open
C7_Witness ==
    /\ pub = "raised"
    /\ \E c \in DOMAIN loads :
          loads[c].exc = "rollback" /\ loads[c].conn # 0
    /\ \E c \in DOMAIN loads : loads[c].commits = 1 /\ loads[c].conn # 0
    /\ connOpen = {}

\* C8 as stated: in bulk_publish the bar advances once per completed load,
\* failed or not, so a run makes as many updates as there are chunks.
C8_ProgressForEveryChunk ==
    variant = "bulk_publish" /\ Ended => Len(progress) = Len(chunks)

\* publish has no progress bar
PublishHasNoProgress == variant = "publish" => progress = << >>

\* C8 amended: in bulk_publish the bar advances once for every load the
\* dispatcher sees succeed, with i counting from 1 and completed/total as
\* the percentage, and not for the failed load that makes it raise nor for
\* any load after it: a run that returns makes as many updates as there are
\* chunks, a run that raises makes fewer.
C8_ProgressForObservedSuccesses ==
    variant = "bulk_publish" =>
        /\ Len(progress) = Cardinality(observed \ FailedLoads)
        /\ \A k \in 1..Len(progress) :
              /\ progress[k].i = k
              /\ progress[k].ttl = Len(chunks)
              /\ progress[k].percent_num = 100 * k
              /\ progress[k].percent_den = Len(chunks)
        /\ pub = "returned" => Len(progress) = Len(chunks)
        /\ pub = "raised" => Len(progress) < Len(chunks)

\* bulk_publish raised after the bar had advanced
C8_Witness ==
    /\ variant = "bulk_publish"
    /\ pub = "raised"
    /\ Len(progress) >= 1
    /\ FailedLoads # {}

\* C9: if chunking fails (the table has no column) the call aborts with the
\* chunking error: nothing is submitted, no load starts, no connection is
\* opened, and the aggregated error is not raised.
C9_ChunkingFailureAborts ==
    (pub # "idle" /\ Len(table.values) = 0) \/ pub = "chunk_error" =>
        /\ pub = "chunk_error"
        /\ Len(table.values) = 0
        /\ loads = << >>
        /\ connOpen = {}
        /\ observed = {}
        /\ errors = << >>

C9_Witness == pub = "chunk_error" /\ Len(table.keys) = 0

\* C10: for a table whose columns have equal length and a chunk size > 0,
\* the rows of the chunks, concatenated in the order returned, are the rows
\* of the table in order, and every chunk has the table's column names in
\* the table's order.
C10_ChunkCompleteness ==
    pub # "idle" /\ Len(table.values) > 0 /\ EqualLengths(table) /\ chunk_size > 0 =>
        /\ pub # "chunk_error"
        /\ ConcatRows(chunks) = Rows(table)
        /\ \A n \in 1..Len(chunks) :
              /\ chunks[n].keys = table.keys
              /\ Len(chunks[n].values) = Len(table.values)

\* two columns, several chunks, the last one shorter than the chunk size
C10_Witness ==
    /\ pub = "submitting"
    /\ Len(table.keys) = 2
    /\ Len(chunks) >= 2
    /\ Len(chunks[Len(chunks)].values[1]) < chunk_size
    /\ ConcatRows(chunks) = Rows(table)

\* C11: for N rows and chunk size S > 0, chunk_data returns ceil(N / S)
\* chunks (none when N = 0); every chunk but the last has S rows and the
\* last has N mod S rows, or S when N is a positive multiple of S.
C11_ChunkCountAndSizes ==
    pub # "idle" /\ Len(table.values) > 0 /\ EqualLengths(table) /\ chunk_size > 0 =>
        LET N == Len(table.values[1])
            S == chunk_size
        IN  /\ pub # "chunk_error"
            /\ Len(chunks) = (N + S - 1) \div S
            /\ \A n \in 1..Len(chunks) :
                  /\ EqualLengths(chunks[n])
                  /\ Len(Rows(chunks[n])) =
                        IF n < Len(chunks) \/ N % S = 0 THEN S ELSE N % S

\* three rows in chunks of two: two chunks, the last with one row
C11_Witness ==
    /\ pub = "submitting"
    /\ EqualLengths(table)
    /\ Len(table.values[1]) = 3
    /\ chunk_size = 2
    /\ Len(chunks) = 2
    /\ Len(Rows(chunks[2])) = 1

\* C12: chunk_data fails with the chunking error and returns no chunks when
\* the table has no columns or its columns differ in length; the chunks it
\* returns have columns of one length and together hold every value of
\* every column.
C12_RaggedTableRejected ==
    pub # "idle" /\ variant = "bulk_publish" =>
        /\ Len(table.values) = 0 \/ ~EqualLengths(table) =>
              pub = "chunk_error" /\ chunks = << >>
        /\ \A n \in 1..Len(chunks) : EqualLengths(chunks[n])
        /\ pub # "chunk_error" =>
              \A k \in 1..Len(table.values) :
                  ConcatRows([n \in 1..Len(chunks) |->
                                [keys |-> << chunks[n].keys[k] >>,
                                 values |-> << chunks[n].values[k] >>]])
                    = [r \in 1..Len(table.values[k]) |-> << table.values[k][r] >>]

\* the scalar at row r, column k of a chunk
Cell(chunk, r, k) == chunk.values[k][r]

\* chunk has one row and one column
OneField(chunk) == Len(chunk.keys) = 1 /\ Len(chunk.values[1]) = 1

\* the payload whose field at row r, column k is f[r][k]
Payload(chunk, f(_, _)) ==
    join(<< NL >>,
         [r \in 1..Len(chunk.values[1]) |->
            join(<< PIPE >>, [k \in 1..Len(chunk.keys) |-> f(r, k)])])

\* C13: the column list of the statement is the chunk's column names joined
\* by comma and space in column order, a column named exactly order written
\* "order" in double quotes and every other name unchanged, in the statement
\* of publish and in that of bulk_publish.
C13_ColumnListJoined ==
    \A c \in DOMAIN built :
        built[c].col =
            join(<< ",", " " >>,
                 [k \in 1..Len(chunks[c].keys) |->
                    IF chunks[c].keys[k] = << "o", "r", "d", "e", "r" >>
                    THEN << DQ, "o", "r", "d", "e", "r", DQ >>
                    ELSE chunks[c].keys[k]])

\* the texts C14 names, lower-cased
NamedSentinels ==
    { << "n", "a", "n" >>, << "n", "u", "l", "l" >>, << "n", "/", "a" >>,
      << "n", "a", "t" >>, << >> }

\* x is None or, ignoring case and surrounding whitespace, a named sentinel
IsSentinelValue(x) ==
    x.kind = "none" \/ str_lower(strip(str(x))) \in NamedSentinels

\* C14: a field value that, ignoring case and surrounding whitespace, equals
\* NaN, null, N/A, NaT or the empty string, and a None value, is serialized
\* as the empty field at its position; the other fields of the row are what
\* they are without it.
C14_SentinelsBecomeEmpty ==
    \A c \in DOMAIN built :
        LET f(r, k) == IF IsSentinelValue(Cell(chunks[c], r, k)) THEN << >>
                       ELSE field(Cell(chunks[c], r, k))
        IN  built[c].val = Payload(chunks[c], f)

C14_Witness ==
    \E c \in DOMAIN built :
        /\ Len(chunks[c].keys) = 2
        /\ Cell(chunks[c], 1, 1) = Text(<< "N", "a", "N" >>)
        /\ Cell(chunks[c], 1, 2) = Text(<< " ", "a" >>)
        /\ Len(chunks[c].values[1]) = 1
        /\ built[c].val = << PIPE, "a" >>

\* C17: within one load the commit comes only after the payload was written
\* and the copy closed without error; whenever the write or the commit
\* raises, a rollback is attempted on the load's connection and the load ends
\* with the error that wraps the underlying cause, never with success.
C17_CommitAfterWriteElseWrappedError ==
    \A c \in DOMAIN loads :
        /\ loads[c].commits >= 1 =>
              loads[c].st = "finished" /\ loads[c].cause = "none" /\ loads[c].conn # 0
        /\ loads[c].st = "written" => loads[c].cause = "none" /\ loads[c].commits = 0
        /\ loads[c].st = "finished" /\ loads[c].cause # "none" =>
              /\ loads[c].rollbacks = 1
              /\ loads[c].commits = 0
              /\ loads[c].exc = "load"

\* what holds of C17 in every run: the order of write and commit, the
\* rollback attempt, and an error of some kind
C17_CommitAfterWriteElseSomeError ==
    \A c \in DOMAIN loads :
        /\ loads[c].commits >= 1 =>
              loads[c].st = "finished" /\ loads[c].cause = "none" /\ loads[c].conn # 0
        /\ loads[c].st = "written" => loads[c].cause = "none" /\ loads[c].commits = 0
        /\ loads[c].st = "finished" /\ loads[c].cause # "none" =>
              /\ loads[c].rollbacks = 1
              /\ loads[c].commits = 0
              /\ loads[c].exc \in {"load", "rollback"}

\* C18: the outcome of a load depends on that load alone: a load in its with
\* block has its own connection open whatever the other loads did, and once
\* the call is over every load that met no error of its own is committed,
\* also when other loads failed and the call raised.
C18_LoadsIsolated ==
    /\ \A c \in DOMAIN loads :
          loads[c].st \in {"connected", "written", "except"} =>
              loads[c].conn \in connOpen
    /\ Ended =>
          \A c \in DOMAIN loads :
              loads[c].exc = "none" /\ loads[c].cause = "none" =>
                  /\ loads[c].st = "finished"
                  /\ loads[c].invoked = 1
                  /\ loads[c].commits = 1

\* the call raised; a load failed between two loads that committed, the
\* later of which was started after the failure was observed
C18_Witness ==
    /\ pub = "raised"
    /\ \E c, d, f \in DOMAIN loads :
          /\ c < f /\ f < d
          /\ Failed(f) /\ loads[f].rollbacks = 1
          /\ loads[c].commits = 1 /\ loads[d].commits = 1

\* the characters of s
Chars(s) == { s[i] : i \in 1..Len(s) }

\* s.split(ch)
RECURSIVE SplitOn(_, _)
SplitOn(s, ch) ==
    IF ch \notin Chars(s) THEN << s >>
    ELSE LET i == CHOOSE j \in 1..Len(s) : s[j] = ch /\ \A h \in 1..(j - 1) : s[h] # ch
         IN  << SubSeq(s, 1, i - 1) >> \o SplitOn(SubSeq(s, i + 1, Len(s)), ch)

\* C15: every double quote of a field is serialized as two double quotes, and
\* reading the serialized field with a CSV parser whose quote and escape
\* character is the double quote returns the original field, case aside.
\* Stated for the fields nothing else touches: trimmed text with a double
\* quote in it and no delimiter, newline or carriage return.
C15_QuotesRoundTrip ==
    \A c \in DOMAIN built :
        LET x == Cell(chunks[c], 1, 1)
        IN  /\ OneField(chunks[c]) /\ x.kind = "str"
            /\ DQ \in Chars(x.s) /\ Chars(x.s) \cap {PIPE, NL, CR} = {}
            /\ strip(x.s) = x.s
            => /\ built[c].val = str_lower(str_replace(x.s, DQ, << DQ, DQ >>))
               /\ csv_field(built[c].val, FALSE) = str_lower(x.s)

\* the first half of C15 alone: the quotes are doubled
C15_QuotesDoubled ==
    \A c \in DOMAIN built :
        LET x == Cell(chunks[c], 1, 1)
        IN  /\ OneField(chunks[c]) /\ x.kind = "str"
            /\ DQ \in Chars(x.s) /\ Chars(x.s) \cap {PIPE, NL, CR} = {}
            /\ strip(x.s) = x.s
            => built[c].val = str_lower(str_replace(x.s, DQ, << DQ, DQ >>))

\* a field C16 calls already sanitized: lower-case text that is no sentinel
\* and has no double quote, newline or carriage return in it
Sanitized(x) ==
    /\ x.kind = "str"
    /\ str_lower(x.s) = x.s
    /\ ~IsSentinelValue(x)
    /\ Chars(x.s) \cap {DQ, NL, CR} = {}

AllCells(chunk, P(_)) ==
    \A k \in 1..Len(chunk.keys) : \A r \in 1..Len(chunk.values[k]) : P(Cell(chunk, r, k))

\* the payload of the rows read back from payload val
Reserialized(val) ==
    LET lines == SplitOn(val, NL)
    IN  join(<< NL >>,
             [r \in 1..Len(lines) |->
                LET fs == SplitOn(lines[r], PIPE)
                IN  join(<< PIPE >>, [k \in 1..Len(fs) |-> field(Text(fs[k]))])])

\* C16 as stated: for a chunk whose fields are already sanitized,
\* serialization leaves every field unchanged, and serializing the chunk read
\* back from its payload yields the same payload.
C16_SanitizedUnchanged ==
    \A c \in DOMAIN built :
        AllCells(chunks[c], Sanitized) =>
            LET raw(r, k) == Cell(chunks[c], r, k).s
            IN  /\ built[c].val = Payload(chunks[c], raw)
                /\ Reserialized(built[c].val) = built[c].val

\* a sanitized field that serialization leaves alone has, besides, no
\* leading or trailing whitespace and is not the text of two apostrophes
Settled(x) ==
    /\ Sanitized(x)
    /\ strip(x.s) = x.s
    /\ x.s # << SQ, SQ >>

\* C16, amended: for a chunk whose fields are sanitized, trimmed and not the
\* two-apostrophe text, serialization leaves every field unchanged: the
\* payload is the fields joined by | within a row and by newline between rows.
C16_SettledUnchanged ==
    \A c \in DOMAIN built :
        AllCells(chunks[c], Settled) =>
            LET raw(r, k) == Cell(chunks[c], r, k).s
            IN  built[c].val = Payload(chunks[c], raw)

C16_Witness ==
    \E c \in DOMAIN built :
        /\ AllCells(chunks[c], Settled)
        /\ Len(chunks[c].keys) = 2 /\ Len(chunks[c].values[1]) = 2
        /\ Cell(chunks[c], 2, 2) = Text(<< "a", PIPE, "b" >>)
        /\ built[c].val = << "a", PIPE, "a", NL, "a", PIPE, "a", PIPE, "b" >>

\* C19: for a chunk of R rows and C columns and any field values, the payload
\* splits on newline into exactly R lines and every line splits on | into
\* exactly C fields, the k-th being the sanitized value of column k.
C19_Framing ==
    \A c \in DOMAIN built :
        LET lines == SplitOn(built[c].val, NL)
        IN  /\ Len(lines) = Len(chunks[c].values[1])
            /\ \A r \in 1..Len(lines) :
                  LET fs == SplitOn(lines[r], PIPE)
                  IN  /\ Len(fs) = Len(chunks[c].keys)
                      /\ \A k \in 1..Len(fs) : fs[k] = field(Cell(chunks[c], r, k))

\* C19 for the rows alone: the payload has exactly R lines
C19_RowFraming ==
    \A c \in DOMAIN built :
        Len(SplitOn(built[c].val, NL)) = Len(chunks[c].values[1])

\* the sentinel texts C20 names
SentinelTexts ==
    { << "n", "a", "n" >>, << "n", "/", "a" >>, << "n", "u", "l", "l" >>,
      << "n", "a", "t" >> }

\* C20 as stated: for every input field value, the field written to the
\* payload is never, ignoring case and surrounding whitespace, nan, n/a, null
\* or nat.
C20_NeverSentinel ==
    \A c \in DOMAIN built :
        OneField(chunks[c]) => str_lower(strip(built[c].val)) \notin SentinelTexts

\* C20, amended: the same for every input field value that, once trimmed, has
\* no newline and no carriage return in it.
C20_NeverSentinelWithoutLineBreaks ==
    \A c \in DOMAIN built :
        /\ OneField(chunks[c])
        /\ Chars(strip(str(Cell(chunks[c], 1, 1)))) \cap {NL, CR} = {}
        => str_lower(strip(built[c].val)) \notin SentinelTexts

C20_Witness ==
    \E c \in DOMAIN built :
        /\ OneField(chunks[c])
        /\ Cell(chunks[c], 1, 1) = Text(<< " ", "N", "U", "L", "L", CR, NL >>)
        /\ built[c].val = << >>

====
